---- MODULE Spec2Model ----
(***************************************************************************)
(* Model of osutableGUI.py: the background task started by the "Start      *)
(* Download" button (start_download.task), the download engine             *)
(* (download_missing_maps) and the archive extractor (extract_osz_files).  *)
(*                                                                         *)
(* Levels are kept as twice their value (3.5 is 7), so that the halves the *)
(* tables use stay integers.  Strings of the program that are only         *)
(* compared (hashes, table names, header values) are TLA+ strings; titles  *)
(* and artists, which sanitize_filename edits, are sequences of            *)
(* characters.                                                             *)
(***************************************************************************)
EXTENDS Integers, Sequences, FiniteSets, TLC

VARIABLES
    pc,               \* position of the task thread ("idle": no task)
    button,           \* start_button state: "normal" | "disabled"
    status,           \* status_label text
    dialogs,          \* message boxes shown by the current run, in order
    selected_tables,  \* argument of start_download
    level_ranges_int, \* argument of start_download: table -> <<min, max>>
    auto_extract,     \* argument of start_download
    existing_md5,     \* task local
    ti,               \* index of the table the for loop of line 152 is at
    seen,             \* items of the current catalog already iterated
    combined_maps,    \* task local
    unique_maps,      \* task local
    missing_maps,     \* task local, the worklist
    done,             \* download_missing_maps local
    idx,              \* index of the item the for loop of line 70 is at
    progress,         \* calls of progress_callback, in order: <<done, total>>
    requests,         \* worklist indexes a GET was issued for, in order
    outcomes,         \* per attempted item, the branch the loop body took
    files,            \* archives under download_root: name -> content
    folders,          \* extraction folders under download_root
    osz_files,        \* extract_osz_files local: the listing of line 113
    ei,               \* index into osz_files of the running pass
    delete_after,     \* extract_osz_files argument
    extract_log,      \* extraction attempts of the run: <<name, succeeded>>
    removed,          \* archives os.remove deleted in the run, in order
    response,         \* download_missing_maps local r: the latest response
    pc2               \* position of a second task thread ("none": no such thread)

vars == <<pc, button, status, dialogs, selected_tables, level_ranges_int,
          auto_extract, existing_md5, ti, seen, combined_maps, unique_maps,
          missing_maps, done, idx, progress, requests, outcomes, files,
          folders, osz_files, ei, delete_after, extract_log, removed, response,
          pc2>>

uiVars     == <<button, status, dialogs>>
argVars    == <<selected_tables, level_ranges_int, auto_extract>>
loadVars   == <<existing_md5, ti, seen, combined_maps, unique_maps, missing_maps>>
engineVars == <<done, idx, progress, requests, outcomes, response>>
diskVars   == <<files, folders>>
extractVars == <<osz_files, ei, delete_after, extract_log, removed>>

-----------------------------------------------------------------------------
(* Bounds of the model.                                                    *)

\* Items per fetched catalog, in the runs that check normalization.
MaxCatalogLen == 2
\* Items per fetched catalog, in the runs of the whole pipeline.
MaxRunCatalogLen == 1
\* Length of the worklist, in the runs that check the download engine alone.
MaxWorklist == 2

-----------------------------------------------------------------------------
(* Configuration (lines 13-24) and the values of the GUI.                  *)

T7K == "7K + 8K"
T4K == "4K"

\* The tables that have a catalog URL.
JSON_URLS == {T7K, T4K}

\* What get_selected_tables_and_ranges can return: the checked tables, in
\* the order of table_vars.
Selections == {<<>>, <<T7K>>, <<T4K>>, <<T7K, T4K>>}

\* Spinbox ranges tried: the GUI default and one that cuts at both ends.
DefaultRange == <<0, 13>>
Ranges == {DefaultRange, <<4, 20>>}

Md5s == {"h1", "h2", "h3"}
\* m.get("md5") of an item without the key, or with an empty one: falsy.
NoMd5 == ""

\* Raw values of an item's "level".  "None" is the missing key.
Levels == {"None", "abc", "nan", "3.5", "4.5", "14"}

\* float(lvl_str): whether it returns, whether the result is NaN, and twice
\* the value otherwise.
ParseFloat(lvl_str) ==
    CASE lvl_str = "3.5" -> [ok |-> TRUE,  nan |-> FALSE, twice |-> 7]
      [] lvl_str = "4.5" -> [ok |-> TRUE,  nan |-> FALSE, twice |-> 9]
      [] lvl_str = "14"  -> [ok |-> TRUE,  nan |-> FALSE, twice |-> 28]
      [] lvl_str = "nan" -> [ok |-> TRUE,  nan |-> TRUE,  twice |-> 0]
      [] OTHER           -> [ok |-> FALSE, nan |-> FALSE, twice |-> 0]

\* Mutant: the upper bound of the range is not applied.
InRangeNoMax(lvl_str, min_i, max_i) ==
    LET lvl == ParseFloat(lvl_str)
    IN  lvl.ok /\ ~lvl.nan /\ 2 * min_i <= lvl.twice

\* Lines 166-171: the item is kept iff float() returns and
\* min_i <= lvl <= max_i (false for NaN).
InRange(lvl_str, min_i, max_i) ==
    LET lvl == ParseFloat(lvl_str)
    IN  /\ lvl.ok
        /\ ~lvl.nan
        /\ 2 * min_i <= lvl.twice
        /\ lvl.twice <= 2 * max_i

\* URLs of catalog items.
UrlSet1 == "https://osu.ppy.sh/beatmapsets/1#mania/10"
UrlSet2 == "https://osu.ppy.sh/beatmapsets/2#mania/20"
UrlOld  == "https://osu.ppy.sh/b/33"
Urls == {UrlSet1, UrlSet2, UrlOld}

None == "None"

\* re.search(r"beatmapsets/(\d+)", url): the digits, or None.
extract_beatmapset_id(url) ==
    CASE url = UrlSet1 -> "1"
      [] url = UrlSet2 -> "2"
      [] OTHER         -> None

InvalidChars == {"\\", "/", "*", "?", ":", "\"", "<", ">", "|"}

\* re.sub(r'[\\/*?:"<>|]', "", name)
sanitize_filename(name) ==
    SelectSeq(name, LAMBDA c : c \notin InvalidChars)

Titles == {<<"a">>, <<"a", "?">>}
Artist == <<"x", ":">>

\* Line 78: the archive's name from title, artist and beatmapset id.
Filename(m, beatmapset_id) ==
    <<sanitize_filename(m.title), sanitize_filename(m.artist), beatmapset_id>>

Item(md5, level, url, title) ==
    [md5 |-> md5, level |-> level, url |-> url, title |-> title, artist |-> Artist]

\* Catalog items of the runs that check normalization: every hash and level.
NormItems ==
    {Item(h, l, UrlSet1, <<"a">>) : h \in {NoMd5, "h1", "h2"}, l \in Levels}

\* Catalog items of the runs of the whole pipeline.
RunItems ==
    {Item(h, l, u, <<"a", "?">>) :
        h \in {"h1", "h2"}, l \in {"3.5", "abc"}, u \in {UrlSet1, UrlOld}}

\* Items of the worklists the download engine is checked on.
WorkItems ==
    {Item(h, "3.5", u, t) : h \in Md5s, u \in Urls, t \in Titles}

-----------------------------------------------------------------------------
(* Normalization, lines 174-185.                                           *)

\* Mutant: a later duplicate replaces the one kept.
RECURSIVE DedupKeepLast(_, _, _, _)
DedupKeepLast(maps, i, seen_md5, unique) ==
    IF i > Len(maps) THEN unique
    ELSE LET m == maps[i]
         IN  IF m.md5 = NoMd5
             THEN DedupKeepLast(maps, i + 1, seen_md5, unique)
             ELSE IF m.md5 \in seen_md5
             THEN DedupKeepLast(maps, i + 1, seen_md5,
                      [k \in 1..Len(unique) |->
                          IF unique[k].md5 = m.md5 THEN m ELSE unique[k]])
             ELSE DedupKeepLast(maps, i + 1, seen_md5 \cup {m.md5},
                                Append(unique, m))

\* Lines 175-182, from item i on.
RECURSIVE Dedup(_, _, _, _)
Dedup(maps, i, seen_md5, unique) ==
    IF i > Len(maps) THEN unique
    ELSE LET m == maps[i]
         IN  IF m.md5 = NoMd5 \/ m.md5 \in seen_md5
             THEN Dedup(maps, i + 1, seen_md5, unique)
             ELSE Dedup(maps, i + 1, seen_md5 \cup {m.md5}, Append(unique, m))

\* Mutant: the membership test is inverted.
MissingInverted(maps, existing) ==
    SelectSeq(maps, LAMBDA m : m.md5 \in existing)

\* Line 184.
Missing(maps, existing) ==
    SelectSeq(maps, LAMBDA m : m.md5 \notin existing)

-----------------------------------------------------------------------------
(* The file system under download_root.                                    *)

\* A file's content: the worklist index of the item of the current run that
\* wrote it (0: it was there before the run), and whether its body was
\* streamed to the end.
Content(src, full) == [src |-> src, full |-> full]

NoFiles == [n \in {} |-> Content(0, TRUE)]

\* open(filepath, "wb") and the writes that follow: the file exists from
\* then on, whatever happens to the stream.
WriteFile(fs, name, content) ==
    [n \in DOMAIN fs \cup {name} |-> IF n = name THEN content ELSE fs[n]]

RemoveFile(fs, name) == [n \in DOMAIN fs \ {name} |-> fs[n]]

\* Mutant: the existing file is not looked for.
NeverExists(fs, name) == FALSE

\* os.path.exists(filepath), line 82.
Exists(fs, name) == name \in DOMAIN fs

\* At the start of a run every file on disk is one from before the run.
Aged(fs) == [n \in DOMAIN fs |-> Content(0, fs[n].full)]

-----------------------------------------------------------------------------
(* What the download service can answer to the GET of line 88.             *)

\* Values of the content-length header; None: the header is absent.
Headers == {None, "0", "150000", "199999", "200000", "250000", "abc"}

\* requests.get raises (timeout, connection error), raise_for_status raises
\* (HTTP error status), or the response arrives with its header, and its
\* body then streams to the end or breaks on the way.
Responses ==
    {[kind |-> k, header |-> None, stream |-> "none"] :
        k \in {"ConnectionError", "HTTPError"}}
    \cup {[kind |-> "ok", header |-> h, stream |-> s] :
             h \in Headers, s \in {"complete", "ChunkedEncodingError"}}

NoResponse == [kind |-> "none", header |-> None, stream |-> "none"]

\* Line 92.
SmallResponseLimit == 200000

\* int(r.headers.get('content-length', 0) or 0), line 90: the number, or
\* ValueError for a header that is no integer.
ContentLength(header) ==
    CASE header = None     -> [ok |-> TRUE,  n |-> 0]
      [] header = "0"      -> [ok |-> TRUE,  n |-> 0]
      [] header = "150000" -> [ok |-> TRUE,  n |-> 150000]
      [] header = "199999" -> [ok |-> TRUE,  n |-> 199999]
      [] header = "200000" -> [ok |-> TRUE,  n |-> 200000]
      [] header = "250000" -> [ok |-> TRUE,  n |-> 250000]
      [] OTHER             -> [ok |-> FALSE, n |-> 0]

\* Line 92: total_length and total_length < 200_000.
IsSmall(total_length) == total_length # 0 /\ total_length < SmallResponseLimit

-----------------------------------------------------------------------------
(* The initial state: the window is up, no task runs, the download         *)
(* directory does not exist yet.                                           *)

Idle(fs, dirs) ==
    /\ pc = "idle"
    /\ button = "normal"
    /\ status = "Idle"
    /\ dialogs = <<>>
    /\ selected_tables = <<>>
    /\ level_ranges_int = [t \in JSON_URLS |-> DefaultRange]
    /\ auto_extract = TRUE
    /\ existing_md5 = {}
    /\ ti = 1
    /\ seen = 0
    /\ combined_maps = <<>>
    /\ unique_maps = <<>>
    /\ missing_maps = <<>>
    /\ done = 0
    /\ idx = 1
    /\ progress = <<>>
    /\ requests = <<>>
    /\ outcomes = <<>>
    /\ files = fs
    /\ folders = dirs
    /\ osz_files = <<>>
    /\ ei = 1
    /\ delete_after = FALSE
    /\ extract_log = <<>>
    /\ removed = <<>>
    /\ response = NoResponse
    /\ pc2 = "none"

Init == Idle(NoFiles, {})

-----------------------------------------------------------------------------
(* start_download and the first half of task: lines 133-197.               *)

\* Line 231 and lines 312-321: the button's command starts the task thread
\* with the values the GUI holds.
StartDownload ==
    /\ pc = "idle"
    /\ button = "normal"
    /\ \E sel \in Selections, auto \in BOOLEAN :
          /\ selected_tables' = sel
          /\ auto_extract' = auto
    /\ level_ranges_int' = [t \in JSON_URLS |-> DefaultRange]
    /\ pc' = "start"
    /\ dialogs' = <<>>
    /\ existing_md5' = {}
    /\ ti' = 1
    /\ seen' = 0
    /\ combined_maps' = <<>>
    /\ unique_maps' = <<>>
    /\ missing_maps' = <<>>
    /\ done' = 0
    /\ idx' = 1
    /\ progress' = <<>>
    /\ requests' = <<>>
    /\ outcomes' = <<>>
    /\ files' = Aged(files)
    /\ osz_files' = <<>>
    /\ ei' = 1
    /\ delete_after' = FALSE
    /\ extract_log' = <<>>
    /\ removed' = <<>>
    /\ response' = NoResponse
    /\ UNCHANGED <<button, status, folders>>
    /\ UNCHANGED pc2

\* Lines 139-143.
TaskBegin ==
    /\ pc = "start"
    /\ button' = "disabled"
    /\ status' = "Preparing..."
    /\ pc' = "inventory"
    /\ UNCHANGED <<dialogs, argVars, loadVars, engineVars, diskVars, extractVars>>
    /\ UNCHANGED pc2

\* The task returns: the thread ends.
Return(b, s, d) ==
    /\ pc' = "idle"
    /\ button' = b
    /\ status' = s
    /\ dialogs' = d

\* Lines 35-40: the hashes the song table of the database may hold: none,
\* none of the catalogs' hashes, one of them, all of them.
Inventories == {{}, {"h0"}, {"h1"}, {"h1", "h2"}}

\* Mutant: an empty inventory does not end the run.
NeverInventoryEmpty(md5_set) == FALSE

\* Line 146: not existing_md5.
InventoryEmpty(md5_set) == md5_set = {}

\* Lines 145-148 with get_existing_md5 (29-40).  The database is missing
\* (an error box, the empty set), cannot be opened or queried (sqlite3
\* raises: nothing catches it and the thread dies with the button disabled),
\* or yields its set of hashes.
ReadInventory ==
    /\ pc = "inventory"
    /\ \/ /\ Return("normal", status, Append(dialogs, <<"error", "Database not found">>))
          /\ UNCHANGED existing_md5
       \/ /\ pc' = "crashed"
          /\ UNCHANGED <<uiVars, existing_md5>>
       \/ \E md5_list \in Inventories :
             /\ existing_md5' = md5_list
             /\ IF InventoryEmpty(md5_list)
                THEN Return("normal", status, dialogs)
                ELSE pc' = "fetch" /\ UNCHANGED uiVars
    /\ UNCHANGED <<argVars, ti, seen, combined_maps, unique_maps, missing_maps,
                   engineVars, diskVars, extractVars>>
    /\ UNCHANGED pc2

\* Mutant: the table that failed is reported and skipped.
SkipFailedTable(table) ==
    /\ dialogs' = Append(dialogs, <<"error", table>>)
    /\ ti' = ti + 1
    /\ UNCHANGED <<pc, button, status, seen>>

\* Lines 158-161: the error box naming the table, the button, return.
AbortFetch(table) ==
    /\ Return("normal", status, Append(dialogs, <<"error", table>>))
    /\ UNCHANGED <<ti, seen>>

\* Lines 152-163: the next selected table.  A table without URL is skipped;
\* get_all_maps raises (transport error, HTTP status, malformed JSON) or
\* returns the catalog.
FetchTable ==
    /\ pc = "fetch"
    /\ ti <= Len(selected_tables)
    /\ LET table == selected_tables[ti]
       IN  IF table \notin JSON_URLS
           THEN /\ ti' = ti + 1
                /\ UNCHANGED <<pc, uiVars, seen>>
           ELSE \/ AbortFetch(table)
                \/ /\ pc' = "filter"
                   /\ seen' = 0
                   /\ UNCHANGED <<uiVars, ti>>
    /\ UNCHANGED <<argVars, existing_md5, combined_maps, unique_maps, missing_maps,
                   engineVars, diskVars, extractVars>>
    /\ UNCHANGED pc2

\* Lines 165-172, one iteration: the next item m of the catalog, which may
\* be any item.
FilterItem(items, maxLen) ==
    /\ pc = "filter"
    /\ seen < maxLen
    /\ \E m \in items :
          LET range == level_ranges_int[selected_tables[ti]]
          IN  combined_maps' =
                  IF InRange(m.level, range[1], range[2])
                  THEN Append(combined_maps, m)
                  ELSE combined_maps
    /\ seen' = seen + 1
    /\ UNCHANGED <<pc, uiVars, argVars, existing_md5, ti, unique_maps, missing_maps,
                   engineVars, diskVars, extractVars>>
    /\ UNCHANGED pc2

\* The catalog has no further item: the loop of line 152 goes on.
EndCatalog ==
    /\ pc = "filter"
    /\ pc' = "fetch"
    /\ ti' = ti + 1
    /\ UNCHANGED <<uiVars, argVars, existing_md5, seen, combined_maps, unique_maps,
                   missing_maps, engineVars, diskVars, extractVars>>
    /\ UNCHANGED pc2

\* Mutant: the run goes on to the confirmation whatever the count.
NeverNothingMissing(maps) == FALSE

\* Lines 185-186: total_missing == 0.
NothingMissing(maps) == Len(maps) = 0

\* Lines 174-190, after the last table: deduplicate, subtract the
\* inventory, and stop here if nothing is missing.
Normalize ==
    /\ pc = "fetch"
    /\ ti > Len(selected_tables)
    /\ unique_maps' = Dedup(combined_maps, 1, {}, <<>>)
    /\ missing_maps' = Missing(unique_maps', existing_md5)
    /\ IF NothingMissing(missing_maps')
       THEN Return("normal", "Idle", Append(dialogs, <<"info", "All maps present">>))
       ELSE pc' = "confirm" /\ UNCHANGED uiVars
    /\ UNCHANGED <<argVars, existing_md5, ti, seen, combined_maps,
                   engineVars, diskVars, extractVars>>
    /\ UNCHANGED pc2

\* Mutant: the answer is not looked at.
NeverDeclined(ok) == FALSE

\* Line 194: not ok.
Declined(ok) == ~ok

\* Lines 193-197 and, on yes, the entry of download_missing_maps (65-68).
\* The box is recorded with the answer it got.
Confirm ==
    /\ pc = "confirm"
    /\ \E ok \in BOOLEAN :
          IF Declined(ok)
          THEN Return("normal", "Cancelled",
                      Append(dialogs, <<"askyesno", "Confirm download", ok>>))
          ELSE /\ pc' = "downloading"
               /\ dialogs' = Append(dialogs, <<"askyesno", "Confirm download", ok>>)
               /\ UNCHANGED <<button, status>>
    /\ done' = 0
    /\ idx' = 1
    /\ UNCHANGED <<argVars, loadVars, progress, requests, outcomes, response,
                   diskVars, extractVars>>
    /\ UNCHANGED pc2

-----------------------------------------------------------------------------
(* download_missing_maps, lines 61-106.                                    *)

\* What one iteration of the loop of line 70 does.
Result(outcome, fs, requested, exc) ==
    [outcome |-> outcome, files |-> fs, requested |-> requested, exc |-> exc]

\* Lines 87-100 for work item k and response resp: the exception the try
\* block ends with (None: none), and the files it leaves.
Attempt(k, name, fs, resp) ==
    IF resp.kind # "ok"
    THEN Result("SkippedError", fs, TRUE, resp.kind)
    ELSE LET total_length == ContentLength(resp.header)
         IN  IF ~total_length.ok
             THEN Result("SkippedError", fs, TRUE, "ValueError")
             ELSE IF IsSmall(total_length.n)
             THEN Result("SkippedUndersized", fs, TRUE, None)
             ELSE IF resp.stream = "complete"
             THEN Result("Fetched", WriteFile(fs, name, Content(k, TRUE)), TRUE, None)
             ELSE Result("SkippedError", WriteFile(fs, name, Content(k, FALSE)),
                         TRUE, resp.stream)

\* Mutant: only HTTP errors are caught.
CaughtHttpOnly(exc) == exc = "HTTPError"

\* Line 101: except Exception.
Caught(exc) == TRUE

\* Mutant: the undersized branch lacks its continue and falls through to
\* the count of line 105.
CallsFallThrough(outcome, d) ==
    IF outcome = "SkippedUndersized" THEN <<d + 1, d + 2>> ELSE <<d + 1>>

\* Mutant: an item that failed is not counted.
CallsNotOnError(outcome, d) ==
    IF outcome = "SkippedError" THEN <<>> ELSE <<d + 1>>

\* The values of done the iteration passes to progress_callback: every
\* branch counts the item once (lines 73-74, 83-84, 93-94, 105-106).
Calls(outcome, d) == <<d + 1>>

\* Mutant: an item that failed is attempted again.
RetryOnError(outcome, k) == IF outcome = "SkippedError" THEN k ELSE k + 1

\* The for loop of line 70: whatever the branch (the continue of lines 75,
\* 85, 95 and 103, or the end of the body), the next item is the next of
\* the worklist.
Advance(outcome, k) == k + 1

\* Lines 71-100 for work item m, the k-th of the worklist.
Iteration(m, k, fs, resp) ==
    LET beatmapset_id == extract_beatmapset_id(m.url)
        name == Filename(m, beatmapset_id)
    IN  IF beatmapset_id = None
        THEN Result("SkippedNoAssetId", fs, FALSE, None)
        ELSE IF Exists(fs, name)
        THEN Result("SkippedExisting", fs, FALSE, None)
        ELSE Attempt(k, name, fs, resp)

\* One iteration of the loop of line 70, with the response the service
\* gives if it is asked.
DownloadItem ==
    /\ pc = "downloading"
    /\ idx <= Len(missing_maps)
    /\ \E resp \in Responses :
          LET res == Iteration(missing_maps[idx], idx, files, resp)
              calls == Calls(res.outcome, done)
              total == Len(missing_maps)
          IN  /\ files' = res.files
              /\ requests' = IF res.requested THEN Append(requests, idx) ELSE requests
              /\ response' = IF res.requested THEN resp ELSE response
              /\ IF res.exc # None /\ ~Caught(res.exc)
                 THEN /\ pc' = "crashed"
                      /\ UNCHANGED <<done, idx, progress, outcomes, status>>
                 ELSE /\ done' = IF calls = <<>> THEN done ELSE calls[Len(calls)]
                      /\ progress' = progress \o [i \in 1..Len(calls) |-> <<calls[i], total>>]
                      /\ outcomes' = Append(outcomes, res.outcome)
                      /\ idx' = Advance(res.outcome, idx)
                      /\ status' = "progress"
                      /\ UNCHANGED pc
    /\ UNCHANGED <<button, dialogs, argVars, loadVars, folders, extractVars>>
    /\ UNCHANGED pc2

\* The loop of line 70 is over: download_missing_maps returns (line 214).
DownloadReturn ==
    /\ pc = "downloading"
    /\ idx > Len(missing_maps)
    /\ pc' = "downloaded"
    /\ UNCHANGED <<uiVars, argVars, loadVars, engineVars, diskVars, extractVars>>
    /\ UNCHANGED pc2

-----------------------------------------------------------------------------
(* Lines 216-229 and extract_osz_files, lines 109-128.                     *)

RECURSIVE Listings(_)
\* os.listdir: the names of S in any order.
Listings(S) ==
    IF S = {} THEN {<<>>}
    ELSE UNION {{<<n>> \o l : l \in Listings(S \ {n})} : n \in S}

\* Lines 217-226 up to the listing of line 113: extraction is automatic
\* (and deletes), asked for (and keeps the archives), or declined.
ExtractDecision ==
    /\ pc = "downloaded"
    /\ \/ /\ auto_extract
          /\ status' = "Extracting..."
          /\ delete_after' = TRUE
          /\ pc' = "extracting"
          /\ osz_files' \in Listings(DOMAIN files)
          /\ UNCHANGED dialogs
       \/ /\ ~auto_extract
          /\ status' = "Download complete."
          /\ delete_after' = FALSE
          /\ \/ /\ dialogs' = Append(dialogs, <<"askyesno", "Extract now?", TRUE>>)
                /\ pc' = "extracting"
                /\ osz_files' \in Listings(DOMAIN files)
             \/ /\ dialogs' = Append(dialogs, <<"askyesno", "Extract now?", FALSE>>)
                /\ pc' = "finishing"
                /\ UNCHANGED osz_files
    /\ ei' = 1
    /\ UNCHANGED <<button, argVars, loadVars, engineVars, diskVars, extract_log, removed>>
    /\ UNCHANGED pc2

\* Mutant: the extraction loop has no except clause.
ExtractCaughtNothing(exc) == FALSE

\* Line 120: except Exception.
ExtractCaught(exc) == TRUE

\* Mutant: extractall leaves nothing behind.
ExtractedNowhere(dirs, osz_file, ok) == dirs

\* Lines 116-119: the folders under download_root after the attempt on
\* osz_file; the folder is named as the archive, without its extension.
Extracted(dirs, osz_file, ok) == IF ok THEN dirs \cup {osz_file} ELSE dirs

\* Lines 114-121, one archive: ZipFile or extractall raises on a file that
\* is no archive (a body cut short is none; a whole one may be corrupt
\* too), and the exception is dropped.
ExtractOne ==
    /\ pc = "extracting"
    /\ ei <= Len(osz_files)
    /\ LET osz_file == osz_files[ei]
       IN  \E ok \in BOOLEAN :
              /\ ok => files[osz_file].full
              /\ folders' = Extracted(folders, osz_file, ok)
              /\ extract_log' = Append(extract_log, <<osz_file, ok>>)
              /\ IF ~ok /\ ~ExtractCaught("BadZipFile")
                 THEN pc' = "crashed" /\ UNCHANGED ei
                 ELSE ei' = ei + 1 /\ UNCHANGED pc
    /\ UNCHANGED <<uiVars, argVars, loadVars, engineVars, files, osz_files,
                   delete_after, removed>>
    /\ UNCHANGED pc2

\* Mutant: the archives are removed whatever the argument.
DeletePassAlways(flag) == TRUE

\* Line 123: if delete_after.
DeletePass(flag) == flag

\* Line 123: the extraction loop is over.
ExtractEnd ==
    /\ pc = "extracting"
    /\ ei > Len(osz_files)
    /\ pc' = IF DeletePass(delete_after) THEN "deleting" ELSE "extracted"
    /\ ei' = 1
    /\ UNCHANGED <<uiVars, argVars, loadVars, engineVars, diskVars, osz_files,
                   delete_after, extract_log, removed>>
    /\ UNCHANGED pc2

\* Lines 124-128, one archive.
DeleteOne ==
    /\ pc = "deleting"
    /\ ei <= Len(osz_files)
    /\ files' = RemoveFile(files, osz_files[ei])
    /\ removed' = Append(removed, osz_files[ei])
    /\ ei' = ei + 1
    /\ UNCHANGED <<pc, uiVars, argVars, loadVars, engineVars, folders, osz_files,
                   delete_after, extract_log>>
    /\ UNCHANGED pc2

\* extract_osz_files returns after the deletion loop.
DeleteEnd ==
    /\ pc = "deleting"
    /\ ei > Len(osz_files)
    /\ pc' = "extracted"
    /\ UNCHANGED <<uiVars, argVars, loadVars, engineVars, diskVars, extractVars>>
    /\ UNCHANGED pc2

\* Lines 220 and 226: the box that follows an extraction.
ExtractDone ==
    /\ pc = "extracted"
    /\ dialogs' = Append(dialogs, <<"info", "Done">>)
    /\ pc' = "finishing"
    /\ UNCHANGED <<button, status, argVars, loadVars, engineVars, diskVars, extractVars>>
    /\ UNCHANGED pc2

\* Lines 228-229.
Finish ==
    /\ pc = "finishing"
    /\ Return("normal", "Idle", dialogs)
    /\ UNCHANGED <<argVars, loadVars, engineVars, diskVars, extractVars>>
    /\ UNCHANGED pc2

-----------------------------------------------------------------------------
(* The whole program: runs of the pipeline, one after the other.           *)

Next ==
    \/ StartDownload
    \/ TaskBegin
    \/ ReadInventory
    \/ FetchTable
    \/ FilterItem(RunItems, MaxRunCatalogLen)
    \/ EndCatalog
    \/ Normalize
    \/ Confirm
    \/ DownloadItem
    \/ DownloadReturn
    \/ ExtractDecision
    \/ ExtractOne
    \/ ExtractEnd
    \/ DeleteOne
    \/ DeleteEnd
    \/ ExtractDone
    \/ Finish

Spec == Init /\ [][Next]_vars

-----------------------------------------------------------------------------
(* Normalization alone: lines 150-190, from the states a run is in after   *)
(* its inventory read, for every selection, range and inventory, over      *)
(* catalogs of every hash and level.                                       *)

InitNormalize ==
    /\ pc = "fetch"
    /\ button = "disabled"
    /\ status = "Preparing..."
    /\ dialogs = <<>>
    /\ selected_tables \in Selections
    /\ level_ranges_int \in [JSON_URLS -> Ranges]
    /\ auto_extract = TRUE
    /\ existing_md5 \in {{"h0"}, {"h1"}, {"h2"}, {"h1", "h2"}}
    /\ ti = 1
    /\ seen = 0
    /\ combined_maps = <<>>
    /\ unique_maps = <<>>
    /\ missing_maps = <<>>
    /\ done = 0
    /\ idx = 1
    /\ progress = <<>>
    /\ requests = <<>>
    /\ outcomes = <<>>
    /\ files = NoFiles
    /\ folders = {}
    /\ osz_files = <<>>
    /\ ei = 1
    /\ delete_after = FALSE
    /\ extract_log = <<>>
    /\ removed = <<>>
    /\ response = NoResponse
    /\ pc2 = "none"

NextNormalize ==
    \/ FetchTable
    \/ FilterItem(NormItems, MaxCatalogLen)
    \/ EndCatalog
    \/ Normalize

SpecNormalize == InitNormalize /\ [][NextNormalize]_vars

-----------------------------------------------------------------------------
(* The download engine alone: download_missing_maps from its entry, for    *)
(* every worklist a run can resolve (not empty, no hash twice, none of the *)
(* inventory) and every content of the download directory.                 *)

NoRepeat(maps) ==
    \A i, j \in 1..Len(maps) : maps[i].md5 = maps[j].md5 => i = j

Worklists ==
    {w \in UNION {[1..n -> WorkItems] : n \in 1..MaxWorklist} : NoRepeat(w)}

ArchiveNames ==
    {Filename(m, extract_beatmapset_id(m.url)) :
        m \in {w \in WorkItems : extract_beatmapset_id(w.url) # None}}

InitEngine ==
    /\ pc = "downloading"
    /\ button = "disabled"
    /\ status = "Preparing..."
    /\ dialogs = <<<<"askyesno", "Confirm download", TRUE>>>>
    /\ selected_tables = <<T7K>>
    /\ level_ranges_int = [t \in JSON_URLS |-> DefaultRange]
    /\ auto_extract = TRUE
    /\ existing_md5 = {"h0"}
    /\ missing_maps \in Worklists
    /\ ti = 2
    /\ seen = Len(missing_maps)
    /\ combined_maps = missing_maps
    /\ unique_maps = missing_maps
    /\ done = 0
    /\ idx = 1
    /\ progress = <<>>
    /\ requests = <<>>
    /\ outcomes = <<>>
    /\ \E present \in SUBSET ArchiveNames :
          files = [n \in present |-> Content(0, TRUE)]
    /\ folders = {}
    /\ osz_files = <<>>
    /\ ei = 1
    /\ delete_after = FALSE
    /\ extract_log = <<>>
    /\ removed = <<>>
    /\ response = NoResponse
    /\ pc2 = "none"

NextEngine ==
    \/ DownloadItem
    \/ DownloadReturn

SpecEngine == InitEngine /\ [][NextEngine]_vars

-----------------------------------------------------------------------------
(* Extraction alone: lines 216-229 with extract_osz_files, from the states *)
(* a run is in when download_missing_maps has returned, for either value   *)
(* of the check box and every content of the download directory: archives  *)
(* of the worklists' names and one of another name, each whole or cut      *)
(* short by an earlier run.                                                *)

DirNames == ArchiveNames \cup {<<<<"b">>, <<"y">>, "3">>}

InitExtract ==
    /\ pc = "downloaded"
    /\ button = "disabled"
    /\ status = "progress"
    /\ dialogs = <<<<"askyesno", "Confirm download", TRUE>>>>
    /\ selected_tables = <<T7K>>
    /\ level_ranges_int = [t \in JSON_URLS |-> DefaultRange]
    /\ auto_extract \in BOOLEAN
    /\ existing_md5 = {"h0"}
    /\ missing_maps = <<Item("h1", "3.5", UrlOld, <<"a">>)>>
    /\ ti = 2
    /\ seen = 1
    /\ combined_maps = missing_maps
    /\ unique_maps = missing_maps
    /\ done = 1
    /\ idx = 2
    /\ progress = <<<<1, 1>>>>
    /\ requests = <<>>
    /\ outcomes = <<"SkippedNoAssetId">>
    /\ \E present \in SUBSET DirNames :
          files \in [present -> {Content(0, TRUE), Content(0, FALSE)}]
    /\ folders = {}
    /\ osz_files = <<>>
    /\ ei = 1
    /\ delete_after = FALSE
    /\ extract_log = <<>>
    /\ removed = <<>>
    /\ response = NoResponse
    /\ pc2 = "none"

NextExtract ==
    \/ ExtractDecision
    \/ ExtractOne
    \/ ExtractEnd
    \/ DeleteOne
    \/ DeleteEnd
    \/ ExtractDone
    \/ Finish

SpecExtract == InitExtract /\ [][NextExtract]_vars

-----------------------------------------------------------------------------
(* The button pressed again while a task thread is alive.  start_download  *)
(* starts a thread at every call (line 231); the button is disabled by the *)
(* thread (line 139), not by the call.  Of the second thread the model     *)
(* keeps the position and what it does to the button and the status label. *)

\* Line 231, a second call: the button is still (or again) enabled.
StartDownload2 ==
    /\ pc # "idle"
    /\ pc2 = "none"
    /\ button = "normal"
    /\ pc2' = "start"
    /\ UNCHANGED <<pc, uiVars, argVars, loadVars, engineVars, diskVars, extractVars>>

\* Lines 139-143, second thread.
Task2Begin ==
    /\ pc2 = "start"
    /\ button' = "disabled"
    /\ status' = "Preparing..."
    /\ pc2' = "loading"
    /\ UNCHANGED <<pc, dialogs, argVars, loadVars, engineVars, diskVars, extractVars>>

\* Lines 145-190, second thread: it returns early (lines 146-148, 158-161,
\* 185-190) or reaches the confirmation.
Task2Load ==
    /\ pc2 = "loading"
    /\ \/ /\ pc2' = "none"
          /\ button' = "normal"
          /\ status' \in {status, "Idle"}
       \/ /\ pc2' = "confirm"
          /\ UNCHANGED <<button, status>>
    /\ UNCHANGED <<pc, dialogs, argVars, loadVars, engineVars, diskVars, extractVars>>

\* Lines 193-197, second thread.
Task2Confirm ==
    /\ pc2 = "confirm"
    /\ \/ /\ pc2' = "none"
          /\ button' = "normal"
          /\ status' = "Cancelled"
       \/ /\ pc2' = "downloading"
          /\ UNCHANGED <<button, status>>
    /\ UNCHANGED <<pc, dialogs, argVars, loadVars, engineVars, diskVars, extractVars>>

\* Lines 214-226, second thread: the engine has returned.
Task2Downloaded ==
    /\ pc2 = "downloading"
    /\ pc2' = "extracting"
    /\ status' \in {"Extracting...", "Download complete."}
    /\ UNCHANGED <<pc, button, dialogs, argVars, loadVars, engineVars, diskVars,
                   extractVars>>

\* Lines 228-229, second thread.
Task2Finish ==
    /\ pc2 = "extracting"
    /\ pc2' = "none"
    /\ button' = "normal"
    /\ status' = "Idle"
    /\ UNCHANGED <<pc, dialogs, argVars, loadVars, engineVars, diskVars, extractVars>>

NextRace ==
    \/ Next
    \/ StartDownload2
    \/ Task2Begin
    \/ Task2Load
    \/ Task2Confirm
    \/ Task2Downloaded
    \/ Task2Finish

SpecRace == Init /\ [][NextRace]_vars

-----------------------------------------------------------------------------
(* Properties.                                                             *)

\* The run has passed line 185: it waits for the confirmation, or it has
\* ended on the "already present" box.
NothingToDo ==
    /\ dialogs # <<>>
    /\ dialogs[Len(dialogs)] = <<"info", "All maps present">>

NormalizeDone == pc = "confirm" \/ NothingToDo

Last(seq) == seq[Len(seq)]

\* C1: the deduplicated list holds no hash twice; each item it keeps is the
\* first item of that hash in the concatenated, range-filtered input; every
\* hash of the input is kept, and in the order of first occurrence.
C1_DedupFirstSeenWins ==
    NormalizeDone =>
        /\ \A i, j \in 1..Len(unique_maps) :
              unique_maps[i].md5 = unique_maps[j].md5 => i = j
        /\ \A i \in 1..Len(unique_maps) :
              \E k \in 1..Len(combined_maps) :
                 /\ combined_maps[k] = unique_maps[i]
                 /\ \A j \in 1..(k - 1) : combined_maps[j].md5 # unique_maps[i].md5
        /\ \A k \in 1..Len(combined_maps) :
              combined_maps[k].md5 # NoMd5 =>
                 \E i \in 1..Len(unique_maps) : unique_maps[i].md5 = combined_maps[k].md5
        /\ \A i, j \in 1..Len(unique_maps) :
              i < j =>
                 \E k \in 1..Len(combined_maps) :
                    /\ combined_maps[k].md5 = unique_maps[i].md5
                    /\ \A l \in 1..k : combined_maps[l].md5 # unique_maps[j].md5

\* C1 witness: two items of one hash that differ, from two tables, were
\* normalized and one item of that hash is kept.
C1_Witness ==
    /\ NormalizeDone
    /\ Len(selected_tables) = 2
    /\ Len(unique_maps) = 2
    /\ \E i, j \in 1..Len(combined_maps) :
          /\ i < j
          /\ combined_maps[i].md5 = combined_maps[j].md5
          /\ combined_maps[i] # combined_maps[j]
          /\ combined_maps[i].md5 # NoMd5

\* The level of item m parses to a number within the range of table.
LevelWithin(m, table) ==
    LET lvl == ParseFloat(m.level)
        range == level_ranges_int[table]
    IN  /\ m.level \notin {"None", "abc"}
        /\ lvl.ok
        /\ ~lvl.nan
        /\ 2 * range[1] <= lvl.twice
        /\ lvl.twice <= 2 * range[2]

ItemsOf(maps) == {maps[i] : i \in 1..Len(maps)}

\* C2: an item is added to the filtered list only while its table's catalog
\* is iterated and only if its level parses to a number within that table's
\* range; the deduplicated list and the worklist hold only such items; and
\* no item makes the task fail.
C2_OnlyLevelsInRange ==
    /\ [][ combined_maps' # combined_maps =>
             /\ pc = "filter"
             /\ Len(combined_maps') = Len(combined_maps) + 1
             /\ SubSeq(combined_maps', 1, Len(combined_maps)) = combined_maps
             /\ LevelWithin(Last(combined_maps'), selected_tables[ti]) ]_vars
    /\ [](ItemsOf(missing_maps) \subseteq ItemsOf(unique_maps))
    /\ [](ItemsOf(unique_maps) \subseteq ItemsOf(combined_maps))
    /\ [](pc # "crashed")

\* C2 witness: of a table's catalog of two items one was dropped by the
\* filter and the other reached the worklist.
C2_Witness ==
    /\ pc = "confirm"
    /\ Len(selected_tables) = 1
    /\ seen = 2
    /\ Len(combined_maps) = 1
    /\ Len(missing_maps) = 1

\* Position of the item of hash h in the deduplicated list.
UniquePos(h) == CHOOSE k \in 1..Len(unique_maps) : unique_maps[k].md5 = h

\* C3: the worklist holds exactly the items of the deduplicated list whose
\* hash is not in the inventory, each once, in the order of that list.
C3_WorklistIsDifference ==
    NormalizeDone =>
        /\ \A i \in 1..Len(missing_maps) :
              /\ missing_maps[i].md5 \notin existing_md5
              /\ missing_maps[i] \in ItemsOf(unique_maps)
        /\ \A k \in 1..Len(unique_maps) :
              unique_maps[k].md5 \notin existing_md5 =>
                 unique_maps[k] \in ItemsOf(missing_maps)
        /\ \A i, j \in 1..Len(missing_maps) :
              i < j => UniquePos(missing_maps[i].md5) < UniquePos(missing_maps[j].md5)

\* C3 witness: of two deduplicated items the inventory holds the first, and
\* the worklist is the second alone.
C3_Witness ==
    /\ pc = "confirm"
    /\ Len(unique_maps) = 2
    /\ unique_maps[1].md5 \in existing_md5
    /\ missing_maps = <<unique_maps[2]>>

\* The values of done the progress callback was called with, in order.
Completed == [i \in 1..Len(progress) |-> progress[i][1]]

\* How many calls of the callback carried completed = n.
TimesCompleted(n) == Cardinality({i \in 1..Len(progress) : progress[i][1] = n})

\* C4: the completed counter the callback receives never decreases and
\* never exceeds the length N of the worklist, it is N at most once, and
\* when download_missing_maps has returned it was N exactly once.
C4_CompletedMonotoneReachesTotalOnce ==
    LET N == Len(missing_maps)
    IN  /\ \A i \in 1..Len(progress) : Completed[i] <= N
        /\ \A i, j \in 1..Len(progress) : i <= j => Completed[i] <= Completed[j]
        /\ TimesCompleted(N) <= 1
        /\ pc = "downloaded" => TimesCompleted(N) = 1

\* C4 witness: a finished run over two items, one failed and one fetched.
C4_Witness ==
    /\ pc = "downloaded"
    /\ Len(missing_maps) = 2
    /\ "SkippedError" \in ItemsOf(outcomes)
    /\ "Fetched" \in ItemsOf(outcomes)
    /\ Completed = <<1, 2>>

\* C5: the callback has been called once per item attempted so far, in
\* worklist order: its k-th call carries completed = k and total = N, it is
\* made in the step that attempts item k, and a finished run made N calls.
C5_OneCallbackPerItem ==
    /\ [](pc \in {"downloading", "downloaded"} =>
             /\ Len(progress) = idx - 1
             /\ Len(outcomes) = idx - 1
             /\ \A k \in 1..Len(progress) : progress[k] = <<k, Len(missing_maps)>>)
    /\ [](pc = "downloaded" => Len(progress) = Len(missing_maps))
    /\ [][idx' # idx =>
             /\ idx' = idx + 1
             /\ progress' = Append(progress, <<idx, Len(missing_maps)>>)]_vars

\* C5 witness: the run of two items, the first without asset id, the
\* second already on disk, has made its two calls.
C5_Witness ==
    /\ pc = "downloaded"
    /\ outcomes = <<"SkippedNoAssetId", "SkippedExisting">>
    /\ progress = <<<<1, 2>>, <<2, 2>>>>

\* The archive name of work item k, None if its URL holds no asset id.
TargetOf(k) ==
    LET beatmapset_id == extract_beatmapset_id(missing_maps[k].url)
    IN  IF beatmapset_id = None THEN None ELSE Filename(missing_maps[k], beatmapset_id)

\* The engine is about to attempt an item whose archive is on disk.
AtExistingTarget ==
    /\ pc = "downloading"
    /\ idx <= Len(missing_maps)
    /\ TargetOf(idx) # None
    /\ TargetOf(idx) \in DOMAIN files

\* C6: the step that attempts an item whose archive name is on disk issues
\* no request, leaves every file as it is, records SkippedExisting and
\* goes on to the next item.
C6_ExistingFileNotFetched ==
    [][AtExistingTarget =>
          /\ requests' = requests
          /\ files' = files
          /\ outcomes' = Append(outcomes, "SkippedExisting")
          /\ idx' = idx + 1]_vars

\* C6 witness: the second item's archive was written by the first item of
\* the same run, and was skipped without a second request.
C6_Witness ==
    /\ outcomes = <<"Fetched", "SkippedExisting">>
    /\ requests = <<1>>
    /\ TargetOf(2) \in DOMAIN files
    /\ files[TargetOf(2)] = Content(1, TRUE)

\* The latest iteration asked the service, for item idx - 1.
JustRequested ==
    /\ pc \in {"downloading", "downloaded"}
    /\ requests # <<>>
    /\ Last(requests) = idx - 1

\* The response declares a content length, a number below the limit.
DeclaresSmall(r) ==
    /\ r.kind = "ok"
    /\ r.header # None
    /\ ContentLength(r.header).ok
    /\ ContentLength(r.header).n < SmallResponseLimit

\* C7, as claimed: after a response that declares a length below 200,000
\* the item is SkippedUndersized, no file is at its target path, and the
\* callback was called for it; after one that declares 200,000 or more and
\* streams to the end, the file is written.
C7_UndersizedNeverWritten ==
    JustRequested =>
        LET k == idx - 1
        IN  /\ DeclaresSmall(response) =>
                  /\ outcomes[k] = "SkippedUndersized"
                  /\ TargetOf(k) \notin DOMAIN files
                  /\ progress[k] = <<k, Len(missing_maps)>>
            /\ (/\ response.kind = "ok"
                /\ ContentLength(response.header).ok
                /\ ContentLength(response.header).n >= SmallResponseLimit
                /\ response.stream = "complete") =>
                  /\ outcomes[k] = "Fetched"
                  /\ TargetOf(k) \in DOMAIN files
                  /\ files[TargetOf(k)] = Content(k, TRUE)

\* C8: download_missing_maps never ends by an exception, and it returns
\* only after the last item: every item has its outcome then, and an item
\* that failed is followed by the attempt of the next.
C8_FailureNeverStopsBatch ==
    /\ pc \in {"downloading", "downloaded"}
    /\ idx <= Len(missing_maps) + 1
    /\ Len(outcomes) = idx - 1
    /\ pc = "downloaded" => Len(outcomes) = Len(missing_maps)
    /\ (pc = "downloading" /\ idx <= Len(missing_maps)) => ENABLED DownloadItem

\* C8 witness: the first item failed (an error status, a timeout or a
\* broken stream) and the second was requested and fetched after it.
C8_Witness ==
    /\ pc = "downloaded"
    /\ outcomes = <<"SkippedError", "Fetched">>
    /\ requests = <<1, 2>>

\* The run issued no request, wrote or removed no file, made no callback
\* and attempted no extraction.
NothingDownloadedOrExtracted ==
    /\ requests = <<>>
    /\ outcomes = <<>>
    /\ progress = <<>>
    /\ extract_log = <<>>
    /\ removed = <<>>
    /\ \A n \in DOMAIN files : files[n].src = 0

NoConfirmationAsked ==
    \A i \in 1..Len(dialogs) : dialogs[i][1] # "askyesno"

\* The task is past line 190: at the confirmation, in the engine, in the
\* extractor or about to finish.
PastResolve ==
    pc \in {"confirm", "downloading", "downloaded", "extracting", "deleting",
            "extracted", "finishing"}

\* C9: the step that resolves an empty worklist shows the "already present"
\* box and ends the run with the button enabled and the status Idle; a run
\* that ended so asked no confirmation and downloaded and extracted
\* nothing; and no run gets past that point with an empty worklist.
C9_EmptyWorklistEndsIdle ==
    /\ [][(pc = "fetch" /\ pc' \notin {"fetch", "filter"} /\ missing_maps' = <<>>
              /\ (dialogs' = <<>> \/ Last(dialogs')[1] # "error")) =>
             /\ pc' = "idle"
             /\ button' = "normal"
             /\ status' = "Idle"
             /\ dialogs' = Append(dialogs, <<"info", "All maps present">>)]_vars
    /\ [](NothingToDo =>
             /\ pc = "idle"
             /\ button = "normal"
             /\ missing_maps = <<>>
             /\ NoConfirmationAsked
             /\ NothingDownloadedOrExtracted)
    /\ [](PastResolve => missing_maps # <<>>)

\* C9 witness: the catalogs held items in range, all of them in the
\* inventory, and the run ended on the "already present" box.
C9_Witness ==
    /\ NothingToDo
    /\ pc = "idle"
    /\ unique_maps # <<>>
    /\ missing_maps = <<>>

\* The run ended on the error box of a failed catalog fetch.
FetchFailed ==
    /\ dialogs # <<>>
    /\ Last(dialogs)[1] = "error"
    /\ Last(dialogs)[2] \in JSON_URLS

\* C10: a run whose catalog fetch failed has ended: the box names the
\* table being fetched, the button is enabled, nothing was asked,
\* downloaded or extracted, and the worklist was never built.
C10_FetchFailureAbortsRun ==
    FetchFailed =>
        /\ pc = "idle"
        /\ button = "normal"
        /\ ti <= Len(selected_tables)
        /\ Last(dialogs)[2] = selected_tables[ti]
        /\ Len(dialogs) = 1
        /\ missing_maps = <<>>
        /\ NothingDownloadedOrExtracted

\* C10 witness: the second table's fetch failed after the first table's
\* catalog had given an item in range.
C10_Witness ==
    /\ FetchFailed
    /\ ti = 2
    /\ combined_maps # <<>>
    /\ pc = "idle"

\* The run's inventory read gave no inventory: the error box of the missing
\* database is the run's latest box, or sqlite3 raised in get_existing_md5.
DatabaseMissing ==
    /\ dialogs # <<>>
    /\ Last(dialogs) = <<"error", "Database not found">>

InventoryRaised ==
    /\ pc = "crashed"
    /\ existing_md5 = {}
    /\ ti = 1
    /\ outcomes = <<>>
    /\ extract_log = <<>>

\* C11, as claimed: a run whose inventory could not be read (the database
\* is missing, or it cannot be opened or queried) has ended with a message
\* shown and the button enabled, and it fetched no catalog, asked nothing,
\* and downloaded and extracted nothing.
C11_UnreadableInventoryAbortsRun ==
    (DatabaseMissing \/ InventoryRaised) =>
        /\ pc = "idle"
        /\ button = "normal"
        /\ dialogs # <<>>
        /\ Last(dialogs)[1] = "error"
        /\ ti = 1
        /\ combined_maps = <<>>
        /\ NoConfirmationAsked
        /\ NothingDownloadedOrExtracted

\* The answers the run's confirmation box got.
ConfirmAnswers ==
    {dialogs[i][3] : i \in {j \in 1..Len(dialogs) :
                                /\ dialogs[j][1] = "askyesno"
                                /\ dialogs[j][2] = "Confirm download"}}

\* download_missing_maps was entered in the run.
EngineEntered ==
    \/ pc \in {"downloading", "downloaded", "extracting", "deleting", "extracted",
               "finishing"}
    \/ requests # <<>>
    \/ outcomes # <<>>
    \/ progress # <<>>

\* C12: a run whose confirmation was declined has ended with the button
\* enabled and the status Cancelled, and it requested, wrote and extracted
\* nothing; the engine is entered only from the confirmation, answered yes,
\* of a worklist that is not empty; and the engine is left only by its
\* return after the last item.
C12_DeclineEndsRunEngineNotCancellable ==
    /\ [](FALSE \in ConfirmAnswers =>
             /\ pc = "idle"
             /\ button = "normal"
             /\ status = "Cancelled"
             /\ Last(dialogs) = <<"askyesno", "Confirm download", FALSE>>
             /\ NothingDownloadedOrExtracted)
    /\ [](EngineEntered => (ConfirmAnswers = {TRUE} /\ missing_maps # <<>>))
    /\ [][(pc # "downloading" /\ pc' = "downloading") => pc = "confirm"]_vars
    /\ [][(pc = "downloading" /\ pc' # "downloading") =>
             /\ pc' = "downloaded"
             /\ idx > Len(missing_maps)
             /\ Len(outcomes) = Len(missing_maps)]_vars

\* C12 witness: a worklist was resolved, the confirmation was declined and
\* the run is over.
C12_Witness ==
    /\ pc = "idle"
    /\ missing_maps # <<>>
    /\ status = "Cancelled"
    /\ ConfirmAnswers = {FALSE}
    /\ requests = <<>>

\* The archives the pass has attempted to extract, in order.
Attempted == [i \in 1..Len(extract_log) |-> extract_log[i][1]]

\* C13: extract_osz_files never ends by an exception; while it extracts,
\* the attempts made are the listing up to the current archive, whatever
\* their results, and the next archive can be attempted; and once the
\* extraction loop is over every listed archive has been attempted.
C13_ExtractFailureNeverStopsPass ==
    /\ pc # "crashed"
    /\ pc = "extracting" =>
          /\ Len(extract_log) = ei - 1
          /\ Attempted = SubSeq(osz_files, 1, ei - 1)
          /\ ei <= Len(osz_files) => ENABLED ExtractOne
    /\ pc \notin {"downloaded", "extracting"} => Attempted = osz_files

\* C13 witness: the pass is over; the first archive of the listing failed
\* to extract and a later one was extracted.
C13_Witness ==
    /\ pc = "extracted"
    /\ Len(extract_log) >= 2
    /\ ~extract_log[1][2]
    /\ \E j \in 2..Len(extract_log) : extract_log[j][2]

C15_RemovedWereExtracted ==
    \A i \in 1..Len(removed) :
       /\ <<removed[i], TRUE>> \in ItemsOf(extract_log)
       /\ removed[i] \in folders

\* C15, amended: every archive that extract_osz_files has removed was
\* attempted before the first removal, as was every other listed archive;
\* if its extraction succeeded its folder is in place; an archive whose
\* extraction failed is removed all the same.
C15_RemovedWereAttempted ==
    /\ removed # <<>> => Attempted = osz_files
    /\ \A i \in 1..Len(removed) :
          \E j \in 1..Len(extract_log) :
             /\ extract_log[j][1] = removed[i]
             /\ extract_log[j][2] => removed[i] \in folders

\* C15 witness: the deletion pass has removed an archive whose extraction
\* failed and one whose folder was extracted.
C15_Witness ==
    /\ delete_after
    /\ \E i, k \in 1..Len(removed) :
          /\ <<removed[i], FALSE>> \in ItemsOf(extract_log)
          /\ removed[i] \notin folders
          /\ <<removed[k], TRUE>> \in ItemsOf(extract_log)
          /\ removed[k] \in folders

\* The first task thread is in its loading, downloading or extracting
\* phase.
InPhase ==
    pc \in {"inventory", "fetch", "filter", "downloading", "downloaded",
            "extracting", "deleting", "extracted"}

\* The second task thread is.
InPhase2 == pc2 \in {"loading", "downloading", "extracting"}

\* C16, as claimed: whatever the order of button presses and thread steps,
\* no two task threads are in their loading, downloading or extracting
\* phase at the same time.
C16_OneTaskAtATime == ~(InPhase /\ InPhase2)

\* C17: no archive is listed, extracted or removed before the engine has
\* returned with an outcome for every item of the worklist; the engine
\* attempts the items in worklist order, each once; and the requests of a
\* run are of strictly increasing items, so no item is requested twice.
C17_ExtractAfterAllOutcomesNoRetry ==
    /\ (\/ pc \in {"extracting", "deleting", "extracted"}
        \/ osz_files # <<>>
        \/ extract_log # <<>>
        \/ removed # <<>>) =>
          /\ Len(outcomes) = Len(missing_maps)
          /\ idx = Len(missing_maps) + 1
    /\ Len(outcomes) <= Len(missing_maps)
    /\ pc \in {"downloading", "downloaded"} => Len(outcomes) = idx - 1
    /\ \A i, j \in 1..Len(requests) : i < j => requests[i] < requests[j]
    /\ \A i \in 1..Len(requests) : requests[i] \in 1..Len(outcomes)

\* C17 witness: the first of two items failed on its request, the second
\* was fetched, neither was requested again, and the archive is being
\* extracted.
C17_Witness ==
    /\ pc = "extracting"
    /\ outcomes = <<"SkippedError", "Fetched">>
    /\ requests = <<1, 2>>
    /\ osz_files # <<>>

\* C18, as claimed: a file of the download directory that was not there
\* before the run was written by an item whose body was streamed to the
\* end; an item that ended in an error has left no file.
C18_FileOnlyIfStreamedToEnd ==
    \A n \in DOMAIN files :
       files[n].src # 0 =>
          /\ files[n].full
          /\ outcomes[files[n].src] = "Fetched"

\* C19: the step in which the inventory read returns the empty set (the
\* database is missing, or it holds no song) ends the run with the button
\* enabled, showing at most the box of the missing database; a run without
\* inventory has fetched no catalog, asked nothing, and downloaded and
\* extracted nothing; and no run is past its inventory read, or in or past
\* the engine, with an empty inventory.
C19_EmptyInventoryEndsRun ==
    /\ [][(pc = "inventory" /\ pc' # "crashed" /\ existing_md5' = {}) =>
             /\ pc' = "idle"
             /\ button' = "normal"
             /\ dialogs' \in {dialogs, Append(dialogs, <<"error", "Database not found">>)}]_vars
    /\ [](existing_md5 = {} =>
             /\ ti = 1
             /\ seen = 0
             /\ combined_maps = <<>>
             /\ NoConfirmationAsked
             /\ NothingDownloadedOrExtracted)
    /\ []((pc \in {"fetch", "filter"} \/ PastResolve \/ EngineEntered) =>
             existing_md5 # {})

\* C19 witness: the database is there and holds no song; the run has ended
\* without any box, the button enabled.
C19_Witness ==
    /\ pc = "idle"
    /\ status = "Preparing..."
    /\ button = "normal"
    /\ dialogs = <<>>
    /\ existing_md5 = {}

====
